---- MODULE Spec2Model ----
(***************************************************************************)
(* Model of generation/models/pix2pixHD_model.py (class Pix2PixHDModel):   *)
(* the feature subsystem (swap_features, get_equiv_ID, broadcast_features),*)
(* the input encoder's edge mask (get_edges), the loss aggregator          *)
(* (init_loss_filter / forward) and the learning-rate schedule.            *)
(*                                                                         *)
(* Tensors of shape [batch, channel, H, W] are functions; Python's 0-based *)
(* indices are shifted by one (the first sample is sample 1, the first     *)
(* channel is channel 1).  For swap_features and broadcast_features the    *)
(* H x W plane is kept as its row-major pixel list 1..NumPix: both methods *)
(* reach pixels only through nonzero(), which enumerates them in row-major *)
(* order, and through [b, c, h, w] element indexing.                       *)
(***************************************************************************)
EXTENDS Integers, Sequences, FiniteSets, TLC

VARIABLES
    call,                \* which method the current behaviour exercises
    swapID,              \* swap_features: argument swapID
    condition_label,     \* swap_features: argument condition_label [b][p]
    reference_label,     \* swap_features: argument reference_label [b][p]
    condition_feat_map,  \* swap_features: argument, mutated in place [b][p][k]
    reference_feat_map,  \* swap_features: argument [b][p][k]
    equivID,             \* swap_features: local equivID (line 440/442)
    swap_result,         \* "pending" | "returned" | "AssertionError" | "IndexError"
    opt,                 \* self.opt: the options the model was initialized with
    loss_filter_flags,   \* the flags tuple captured by self.loss_filter (line 26)
    loss_names,          \* self.loss_names (line 97)
    forward_result,      \* what the last forward() returned: [losses, image]
    old_lr,              \* self.old_lr
    optimizer_G,         \* self.optimizer_G.param_groups
    optimizer_D,         \* self.optimizer_D.param_groups
    lr_calls,            \* number of learning-rate / optimizer calls made so far
    features_dict,       \* broadcast_features: argument features_dict (class -> vector)
    label_map,           \* broadcast_features: argument label_map [b][p]
    random,              \* broadcast_features: argument random
    from_avg,            \* broadcast_features: argument from_avg
    feat_map,            \* broadcast_features: the returned feat_map [b][p][k]
    broadcast_result,    \* "pending" | "returned"
    t,                   \* get_edges: argument t, one sample's instance map [h][w]
    edge,                \* get_edges: the returned edge mask [h][w]
    edges_result,        \* "pending" | "returned"
    encode_opt,          \* encode_input: the options it reads from self.opt
    encode_label_map,    \* encode_input: argument label_map, one sample's row [w]
    inst_map,            \* encode_input: argument inst_map, one sample's row [w]
    input_label,         \* encode_input: the returned input_label [w][channel]
    encode_result        \* "pending" | "returned" | "RuntimeError"

swapVars == <<swapID, condition_label, reference_label, condition_feat_map,
              reference_feat_map, equivID, swap_result>>

trainVars == <<opt, loss_filter_flags, loss_names, forward_result, old_lr,
               optimizer_G, optimizer_D, lr_calls>>

broadcastVars == <<features_dict, label_map, random, from_avg, feat_map,
                   broadcast_result>>

edgeVars == <<t, edge, edges_result>>

encodeVars == <<encode_opt, encode_label_map, inst_map, input_label,
                encode_result>>

vars == <<call, swapVars, trainVars, broadcastVars, edgeVars, encodeVars>>

----------------------------------------------------------------------------
(* Bounds of the model *)

\* number of samples in a batch of the swap inputs
Batch == 2

\* number of pixels (H*W) of one sample of the swap inputs
NumPix == 2

\* number of feature channels (opt.feat_num) of the swap feature maps
FeatNum == 2

\* largest numerator of a learning rate (rates are exact rationals, in units
\* of the smallest rate considered)
MaxLr == 2

\* largest opt.niter_decay (number of decay epochs)
MaxDecay == 3

\* largest number of update_learning_rate / set_continue_learning_rate /
\* update_fixed_params calls in one run
MaxCalls == 3

\* height of the instance map given to get_edges
EdgeH == 3

\* width of the instance map given to get_edges
EdgeW == 3

\* largest opt.label_nc (number of label classes) given to encode_input
MaxLabelNc == 2

\* width of the one-row label map given to encode_input
EncW == 2

Samples == 1..Batch
Pixels == 1..NumPix
Channels == 1..FeatNum

----------------------------------------------------------------------------
(* swap_features / get_equiv_ID *)

\* Python's None (get_equiv_ID falls off its end); never a label value
None == -1

\* class ids a caller asks to swap: blouse and sweater (the two entries of the
\* equivalence table) and dress (no entry)
SwapIDs == {5, 7, 22}

\* class ids of a condition label map: swap_features compares its pixels with
\* swapID only, so a map holds swapID and one other class (T-shirt)
ConditionLabels(ID) == {ID, 1}

\* class ids of a reference label map: T-shirt and blouse
ReferenceLabels == {1, 5}

\* the encoder's output for the condition image: every entry distinct
ConditionFeat == [b \in Samples |-> [p \in Pixels |-> [k \in Channels |->
                      1000 + 100 * b + 10 * p + k]]]

\* the encoder's output for the reference image: every entry distinct
ReferenceFeat == [b \in Samples |-> [p \in Pixels |-> [k \in Channels |->
                      2000 + 100 * b + 10 * p + k]]]

\* np.unique(label.cpu().numpy().astype(int)): the distinct values of all samples
InstList(label) == { label[b][p] : b \in Samples, p \in Pixels }

\* get_equiv_ID with the commented-out dress -> T-shirt entry (lines 455-456) live
get_equiv_ID_WithDress(ID) ==
    IF ID = 7 THEN 1
    ELSE IF ID = 5 THEN 1
    ELSE IF ID = 22 THEN 1
    ELSE None

get_equiv_ID(ID) ==
    IF ID = 5 THEN 1          \* blouse -> T-shirt
    ELSE IF ID = 22 THEN 1    \* sweater -> T-shirt
    ELSE None

\* the assertion of line 436 not executed (the early "# return" of line 433
\* moved below it, or asserts compiled out)
ConditionAssert_Skipped(ID, inst_list) == TRUE

\* line 436: assert(swapID in inst_list)
ConditionAssert(ID, inst_list) == ID \in inst_list

\* line 444: assert(equivID in inst_list); None is in no label list
ReferenceAssert(equiv, inst_list) == equiv \in inst_list

\* lines 439-442
ResolveEquivID(ID, inst_list) ==
    IF ID \notin inst_list THEN get_equiv_ID(ID) ELSE ID

\* (label[0:1] == int(v)).nonzero(): the rows <<b, c, p>> of the first sample
\* whose value is v, in row-major order
Nonzero(label, v) ==
    SelectSeq([p \in Pixels |-> <<1, 1, p>>], LAMBDA r : label[1][r[3]] = v)

\* line 451 with the channel slice ":" replaced by the first channel only
SwapAssign_FirstChannel(cfm, rfm, condition_indices, sample_indices) ==
    [b \in Samples |-> [p \in Pixels |->
        IF \E i \in 1..Len(condition_indices) :
               /\ condition_indices[i][1] = b
               /\ condition_indices[i][3] = p
        THEN [k \in Channels |->
                 IF k = 1 THEN rfm[sample_indices[1]][sample_indices[3]][k]
                 ELSE cfm[b][p][k]]
        ELSE cfm[b][p]]]

\* line 451 with the batch index all_indices[0] replaced by the slice ":"
SwapAssign_EverySample(cfm, rfm, condition_indices, sample_indices) ==
    [b \in Samples |-> [p \in Pixels |->
        IF \E i \in 1..Len(condition_indices) : condition_indices[i][3] = p
        THEN [k \in Channels |-> rfm[sample_indices[1]][sample_indices[3]][k]]
        ELSE cfm[b][p]]]

\* line 451: condition_feat_map[all_indices[0], :, all_indices[2], all_indices[3]]
\*             = reference_feat_map[sample_indices[0], :, sample_indices[2], sample_indices[3]]
\* The right-hand side is one vector (all channels of one pixel), broadcast to
\* every indexed condition pixel.
SwapAssign(cfm, rfm, condition_indices, sample_indices) ==
    [b \in Samples |-> [p \in Pixels |->
        IF \E i \in 1..Len(condition_indices) :
               /\ condition_indices[i][1] = b
               /\ condition_indices[i][3] = p
        THEN [k \in Channels |-> rfm[sample_indices[1]][sample_indices[3]][k]]
        ELSE cfm[b][p]]]

\* the training state is not touched by the feature subsystem
TrainUnused ==
    /\ opt = <<>>
    /\ loss_filter_flags = <<>>
    /\ loss_names = <<>>
    /\ forward_result = <<>>
    /\ old_lr = <<>>
    /\ optimizer_G = <<>>
    /\ optimizer_D = <<>>
    /\ lr_calls = 0

\* broadcast_features is not called
BroadcastUnused ==
    /\ features_dict = <<>>
    /\ label_map = <<>>
    /\ random = FALSE
    /\ from_avg = FALSE
    /\ feat_map = <<>>
    /\ broadcast_result = "pending"

\* get_edges is not called
EdgesUnused ==
    /\ t = <<>>
    /\ edge = <<>>
    /\ edges_result = "pending"

\* encode_input is not called
EncodeUnused ==
    /\ encode_opt = <<>>
    /\ encode_label_map = <<>>
    /\ inst_map = <<>>
    /\ input_label = <<>>
    /\ encode_result = "pending"

InitSwap ==
    /\ call = "swap_features"
    /\ TrainUnused
    /\ BroadcastUnused
    /\ EdgesUnused
    /\ EncodeUnused
    /\ swapID \in SwapIDs
    /\ condition_label \in [Samples -> [Pixels -> ConditionLabels(swapID)]]
    /\ reference_label \in [Samples -> [Pixels -> ReferenceLabels]]
    /\ condition_feat_map = ConditionFeat
    /\ reference_feat_map = ReferenceFeat
    /\ equivID = None
    /\ swap_result = "pending"

swap_features ==
    /\ call = "swap_features"
    /\ swap_result = "pending"
    /\ LET equiv == ResolveEquivID(swapID, InstList(reference_label))
           condition_indices == Nonzero(condition_label, swapID)
           reference_indices == Nonzero(reference_label, equiv)
       IN  IF ~ConditionAssert(swapID, InstList(condition_label))
           THEN \* line 436: assert(swapID in inst_list)
                /\ swap_result' = "AssertionError"
                /\ UNCHANGED <<equivID, condition_feat_map>>
           ELSE IF ~ReferenceAssert(equiv, InstList(reference_label))
           THEN \* line 444: assert(equivID in inst_list)
                /\ swap_result' = "AssertionError"
                /\ equivID' = equiv
                /\ UNCHANGED condition_feat_map
           ELSE IF Len(reference_indices) = 0
           THEN \* line 450: reference_indices[0,:] on an empty index tensor
                /\ swap_result' = "IndexError"
                /\ equivID' = equiv
                /\ UNCHANGED condition_feat_map
           ELSE /\ swap_result' = "returned"
                /\ equivID' = equiv
                /\ condition_feat_map' =
                       SwapAssign(condition_feat_map, reference_feat_map,
                                  condition_indices, reference_indices[1])
    /\ UNCHANGED <<call, swapID, condition_label, reference_label, reference_feat_map>>
    /\ UNCHANGED <<trainVars, broadcastVars, edgeVars, encodeVars>>

NextSwap == swap_features

SpecSwap == InitSwap /\ [][NextSwap]_vars

----------------------------------------------------------------------------
(* Training state: initialize, forward (loss aggregation), learning rate *)

\* the feature subsystem's arguments are not touched by training
SwapUnused ==
    /\ swapID = None
    /\ condition_label = <<>>
    /\ reference_label = <<>>
    /\ condition_feat_map = <<>>
    /\ reference_feat_map = <<>>
    /\ equivID = None
    /\ swap_result = "pending"

(* Learning rates are Python floats; the model computes with exact rationals
   <<numerator, denominator>> in lowest terms, denominator positive. *)
RECURSIVE GCD(_, _)
GCD(a, b) == IF b = 0 THEN a ELSE GCD(b, a % b)

Abs(n) == IF n < 0 THEN -n ELSE n

RatNorm(q) ==
    LET g == GCD(Abs(q[1]), q[2])
    IN  <<q[1] \div g, q[2] \div g>>

\* a - b
RatSub(a, b) == RatNorm(<<a[1] * b[2] - b[1] * a[2], a[2] * b[2]>>)

\* a / n for a positive integer n
RatDiv(a, n) == RatNorm(<<a[1], a[2] * n>>)

\* the options initialize() and the training methods read
Options ==
    [ no_ganFeat_loss : BOOLEAN, no_vgg_loss : BOOLEAN,
      no_style_loss : BOOLEAN, no_recon_loss : BOOLEAN,
      lr : { <<n, 1>> : n \in 1..MaxLr },
      niter_decay : 1..MaxDecay,
      niter_fix_global : {0, 1} ]

\* learning rates a caller resumes training with
ContinueRates == { RatNorm(<<n, d>>) : n \in 1..MaxLr, d \in 1..MaxDecay }

\* init_loss_filter with the reconstruction flag stuck at True
init_loss_filter_ReconAlways(use_gan_feat_loss, use_vgg_loss, use_style_loss, use_recon_loss) ==
    <<TRUE, use_gan_feat_loss, use_vgg_loss, use_style_loss, TRUE, TRUE, TRUE>>

\* line 26: the flags tuple the returned closure captures
init_loss_filter(use_gan_feat_loss, use_vgg_loss, use_style_loss, use_recon_loss) ==
    <<TRUE, use_gan_feat_loss, use_vgg_loss, use_style_loss, use_recon_loss, TRUE, TRUE>>

\* lines 27-28: [l for (l,f) in zip(losses, flags) if f]
RECURSIVE loss_filter(_, _)
loss_filter(flags, losses) ==
    IF losses = <<>> \/ flags = <<>> THEN <<>>
    ELSE IF Head(flags)
         THEN <<Head(losses)>> \o loss_filter(Tail(flags), Tail(losses))
         ELSE loss_filter(Tail(flags), Tail(losses))

\* line 97
LossNames ==
    <<"G_GAN_Encode", "G_GAN_Feat", "G_VGG", "G_STYLE_VGG", "G_RECON", "D_real", "D_fake">>

\* torch.optim.Adam(params, lr=lr, ...): one parameter group
Adam(params, lr) == << [params |-> params, lr |-> lr] >>

\* a loss tensor with the given number of dimensions, each of size 1 (the
\* criteria return 0-dimensional scalars; weighting keeps the shape)
Tensor(name, dims) == [name |-> name, kind |-> "tensor", dims |-> dims]

\* the Python int 0 a disabled loss is left at (lines 223, 234, 235, 249)
IntZero(name) ==
    [name |-> name, kind |-> "int", dims |-> 0]

\* tensor.unsqueeze(0)
Unsqueeze(x) == [x EXCEPT !.dims = @ + 1]

\* lines 222-231
LossGanFeat(o) ==
    IF ~o.no_ganFeat_loss
    THEN Unsqueeze(Tensor("G_GAN_Feat", 0))
    ELSE IntZero("G_GAN_Feat")

\* lines 233-245: <<loss_G_VGG, loss_G_style_VGG>>
LossVgg(o) ==
    IF ~o.no_style_loss
    THEN <<Tensor("G_VGG", 0),
           Unsqueeze(Tensor("G_STYLE_VGG", 0))>>
    ELSE IF ~o.no_vgg_loss
    THEN <<Unsqueeze(Unsqueeze(Tensor("G_VGG", 0))),
           IntZero("G_STYLE_VGG")>>
    ELSE <<IntZero("G_VGG"), IntZero("G_STYLE_VGG")>>

\* lines 248-252
LossRecon(o) ==
    IF ~o.no_recon_loss
    THEN Unsqueeze(Tensor("G_RECON", 0))
    ELSE IntZero("G_RECON")

\* the methods of a model initialized with opt.isTrain
TrainingCalls ==
    {"initialize", "forward", "update_learning_rate",
     "set_continue_learning_rate", "update_fixed_params"}

\* the state initialize(opt) leaves behind for a training run (lines 77-133)
InitTrain ==
    /\ call = "initialize"
    /\ SwapUnused
    /\ BroadcastUnused
    /\ EdgesUnused
    /\ EncodeUnused
    /\ opt \in Options
    /\ old_lr = opt.lr
    /\ loss_filter_flags =
           init_loss_filter(~opt.no_ganFeat_loss, ~opt.no_vgg_loss,
                            ~opt.no_style_loss, ~opt.no_recon_loss)
    /\ loss_names = loss_filter(loss_filter_flags, LossNames)
    /\ forward_result = <<>>
    /\ optimizer_G = Adam(IF opt.niter_fix_global > 0 THEN "local_enhancer" ELSE "all",
                          opt.lr)
    /\ optimizer_D = Adam("netD", opt.lr)
    /\ lr_calls = 0

\* lines 181-255
forward ==
    /\ call \in TrainingCalls
    /\ \E infer \in BOOLEAN :
         forward_result' =
           << loss_filter(loss_filter_flags,
                          << Unsqueeze(Tensor("G_GAN_Encode", 0)),
                             LossGanFeat(opt),
                             LossVgg(opt)[1],
                             LossVgg(opt)[2],
                             LossRecon(opt),
                             Unsqueeze(Tensor("D_real", 0)),
                             Unsqueeze(Tensor("D_fake", 0)) >>),
              IF ~infer THEN "None" ELSE "fake_image" >>
    /\ call' = "forward"
    /\ UNCHANGED <<opt, loss_filter_flags, loss_names, old_lr, optimizer_G,
                   optimizer_D, lr_calls>>
    /\ UNCHANGED <<swapVars, broadcastVars, edgeVars, encodeVars>>

\* param_group['lr'] = lr for every group of an optimizer
SetGroupLr(optimizer, lr) ==
    [g \in 1..Len(optimizer) |-> [optimizer[g] EXCEPT !.lr = lr]]

\* update_learning_rate with the decrement taken from the tracked rate
DecayedRate_FromTracked(o, tracked) == RatSub(tracked, RatDiv(tracked, o.niter_decay))

\* lines 496-497: lrd = opt.lr / opt.niter_decay; lr = old_lr - lrd
DecayedRate(o, tracked) == RatSub(tracked, RatDiv(o.lr, o.niter_decay))

\* lines 495-504
update_learning_rate ==
    /\ call \in TrainingCalls
    /\ lr_calls < MaxCalls
    /\ LET lr == DecayedRate(opt, old_lr)
       IN  /\ optimizer_D' = SetGroupLr(optimizer_D, lr)
           /\ optimizer_G' = SetGroupLr(optimizer_G, lr)
           /\ old_lr' = lr
    /\ lr_calls' = lr_calls + 1
    /\ call' = "update_learning_rate"
    /\ UNCHANGED <<opt, loss_filter_flags, loss_names, forward_result>>
    /\ UNCHANGED <<swapVars, broadcastVars, edgeVars, encodeVars>>

\* lines 506-512
set_continue_learning_rate ==
    /\ call \in TrainingCalls
    /\ lr_calls < MaxCalls
    /\ \E lr \in ContinueRates :
           /\ optimizer_D' = SetGroupLr(optimizer_D, lr)
           /\ optimizer_G' = SetGroupLr(optimizer_G, lr)
           /\ old_lr' = lr
    /\ lr_calls' = lr_calls + 1
    /\ call' = "set_continue_learning_rate"
    /\ UNCHANGED <<opt, loss_filter_flags, loss_names, forward_result>>
    /\ UNCHANGED <<swapVars, broadcastVars, edgeVars, encodeVars>>

\* lines 486-493
update_fixed_params ==
    /\ call \in TrainingCalls
    /\ lr_calls < MaxCalls
    /\ optimizer_G' = Adam("all", opt.lr)
    /\ lr_calls' = lr_calls + 1
    /\ call' = "update_fixed_params"
    /\ UNCHANGED <<opt, loss_filter_flags, loss_names, forward_result, old_lr,
                   optimizer_D>>
    /\ UNCHANGED <<swapVars, broadcastVars, edgeVars, encodeVars>>

NextTrain ==
    \/ forward
    \/ update_learning_rate
    \/ set_continue_learning_rate
    \/ update_fixed_params

SpecTrain == InitTrain /\ [][NextTrain]_vars

----------------------------------------------------------------------------
(* broadcast_features *)

\* values of a label map: two plain class ids and one composite
\* class*1000 + instance id
BroadcastLabels == {3, 6, 6001}

\* classes a feature dictionary may hold
DictClasses == {3, 6}

\* features_dict[label][0, :] of a class: every entry distinct
DictFeature(label) == [k \in Channels |-> 100 * label + k]

\* self.avg_features[label, :] (set by set_avg_features): a row for every class
AvgFeature(label) == [k \in Channels |-> 5000 + 100 * label + k]

\* vectors get_z_random(nz) can return: two samples of the normal distribution
RandomVectors ==
    { [k \in Channels |-> 0 - k], [k \in Channels |-> 7000 + k] }

\* line 340: self.Tensor(n, feat_num, h, w) allocates without initializing; the
\* buffer holds zeros or whatever the memory held before
UninitializedBuffers ==
    { [b \in Samples |-> [p \in Pixels |-> [k \in Channels |-> 0]]],
      [b \in Samples |-> [p \in Pixels |-> [k \in Channels |->
           9000 + 100 * b + 10 * p + k]]] }

\* line 342: label = i if i < 1000 else i//1000
ClassOf(i) == IF i < 1000 THEN i ELSE i \div 1000

\* np.unique(label_map_np) as the ascending sequence of distinct values
RECURSIVE SortedSeq(_)
SortedSeq(S) ==
    IF S = {} THEN <<>>
    ELSE LET lo == CHOOSE x \in S : \A y \in S : x <= y
         IN  <<lo>> \o SortedSeq(S \ {lo})

Unique(lm) == SortedSeq({ lm[b][p] : b \in Samples, p \in Pixels })

\* lines 351-353 with the batch index idx[:,0] replaced by the first sample
BroadcastAssign_FirstSample(fm, lm, i, feat) ==
    [b \in Samples |-> [p \in Pixels |->
        IF lm[b][p] = i /\ b = 1
        THEN [k \in Channels |-> feat[k]]
        ELSE fm[b][p]]]

\* lines 351-353 / 357-359: idx = (label_map == int(i)).nonzero();
\* feat_map[idx[:,0], idx[:,1] + k, idx[:,2], idx[:,3]] = feat[0, k] for every k
BroadcastAssign(fm, lm, i, feat) ==
    [b \in Samples |-> [p \in Pixels |->
        IF lm[b][p] = i
        THEN [k \in Channels |-> feat[k]]
        ELSE fm[b][p]]]

\* lines 341-361: the loop over the distinct values; z[i] is the vector
\* get_z_random returns in the iteration for value i
RECURSIVE BroadcastLoop(_, _, _, _, _, _, _)
BroadcastLoop(values, fm, dict, lm, rnd, avg, z) ==
    IF values = <<>> THEN fm
    ELSE LET i == Head(values)
             label == ClassOf(i)
             next ==
                 IF label \in DOMAIN dict
                 THEN IF label = 6 /\ rnd
                      THEN BroadcastAssign(fm, lm, i, z[i])
                      ELSE BroadcastAssign(fm, lm, i, dict[label])
                 ELSE IF avg
                      THEN BroadcastAssign(fm, lm, i, AvgFeature(label))
                      ELSE fm
         IN  BroadcastLoop(Tail(values), next, dict, lm, rnd, avg, z)

\* lines 343-347: the values in whose iteration get_z_random is called
RandomDraws(dict, lm, rnd) ==
    { i \in { lm[b][p] : b \in Samples, p \in Pixels } :
          ClassOf(i) \in DOMAIN dict /\ ClassOf(i) = 6 /\ rnd }

InitBroadcast ==
    /\ call = "broadcast_features"
    /\ SwapUnused
    /\ TrainUnused
    /\ EdgesUnused
    /\ EncodeUnused
    /\ \E keys \in SUBSET DictClasses :
           features_dict = [c \in keys |-> DictFeature(c)]
    /\ label_map \in [Samples -> [Pixels -> BroadcastLabels]]
    /\ random \in BOOLEAN
    /\ from_avg \in BOOLEAN
    /\ feat_map = <<>>
    /\ broadcast_result = "pending"

\* lines 338-364 (opt.data_type is 32: no conversion to half precision)
broadcast_features ==
    /\ call = "broadcast_features"
    /\ broadcast_result = "pending"
    /\ \E fresh \in UninitializedBuffers :
       \E z \in [RandomDraws(features_dict, label_map, random) ->
                     RandomVectors] :
           feat_map' = BroadcastLoop(Unique(label_map), fresh, features_dict,
                                     label_map, random, from_avg, z)
    /\ broadcast_result' = "returned"
    /\ UNCHANGED <<call, features_dict, label_map, random, from_avg>>
    /\ UNCHANGED <<swapVars, trainVars, edgeVars, encodeVars>>

NextBroadcast == broadcast_features

SpecBroadcast == InitBroadcast /\ [][NextBroadcast]_vars

----------------------------------------------------------------------------
(* get_edges *)

(* Every statement of get_edges slices the batch and channel dimensions with
   ":", so each sample's mask is computed from that sample alone; the model
   carries one sample, t[h][w]. *)
Rows == 1..EdgeH
Cols == 1..EdgeW

\* instance ids of the pixels of an instance map
InstanceIds == {1001, 1002}

Or(x, y) == IF x = 1 \/ y = 1 THEN 1 ELSE 0

Differs(x, y) == IF x # y THEN 1 ELSE 0

\* line 471: edge[:,:,:,1:] = edge[:,:,:,1:] | (t[:,:,:,1:] != t[:,:,:,:-1])
EdgeFromLeft(e, m) ==
    [h \in Rows |-> [w \in Cols |->
        IF w >= 2 THEN Or(e[h][w], Differs(m[h][w], m[h][w - 1])) ELSE e[h][w]]]

\* line 472 left out
EdgeFromRight_Skipped(e, m) == e

\* line 472: edge[:,:,:,:-1] = edge[:,:,:,:-1] | (t[:,:,:,1:] != t[:,:,:,:-1])
EdgeFromRight(e, m) ==
    [h \in Rows |-> [w \in Cols |->
        IF w <= EdgeW - 1 THEN Or(e[h][w], Differs(m[h][w + 1], m[h][w])) ELSE e[h][w]]]

\* line 473: edge[:,:,1:,:] = edge[:,:,1:,:] | (t[:,:,1:,:] != t[:,:,:-1,:])
EdgeFromAbove(e, m) ==
    [h \in Rows |-> [w \in Cols |->
        IF h >= 2 THEN Or(e[h][w], Differs(m[h][w], m[h - 1][w])) ELSE e[h][w]]]

\* line 474: edge[:,:,:-1,:] = edge[:,:,:-1,:] | (t[:,:,1:,:] != t[:,:,:-1,:])
EdgeFromBelow(e, m) ==
    [h \in Rows |-> [w \in Cols |->
        IF h <= EdgeH - 1 THEN Or(e[h][w], Differs(m[h + 1][w], m[h][w])) ELSE e[h][w]]]

\* line 470: torch.ByteTensor(t.size()).zero_()
ZeroEdge == [h \in Rows |-> [w \in Cols |-> 0]]

InitEdges ==
    /\ call = "get_edges"
    /\ SwapUnused
    /\ TrainUnused
    /\ BroadcastUnused
    /\ EncodeUnused
    /\ t \in [Rows -> [Cols -> InstanceIds]]
    /\ edge = <<>>
    /\ edges_result = "pending"

\* lines 468-478 (edge.float() keeps the values 0 and 1)
get_edges ==
    /\ call = "get_edges"
    /\ edges_result = "pending"
    /\ edge' = EdgeFromBelow(EdgeFromAbove(EdgeFromRight(EdgeFromLeft(ZeroEdge, t), t), t), t)
    /\ edges_result' = "returned"
    /\ UNCHANGED <<call, t>>
    /\ UNCHANGED <<swapVars, trainVars, broadcastVars, encodeVars>>

NextEdges == get_edges

SpecEdges == InitEdges /\ [][NextEdges]_vars

----------------------------------------------------------------------------
(* encode_input *)

(* scatter_ along the channel dimension treats every pixel of every sample on
   its own, so the model carries one sample of height 1: a row of EncW pixels.
   Float values are exact rationals <<numerator, denominator>> as for the
   learning rates; the first channel is channel 1 and holds class 0. *)
EncCols == 1..EncW

\* the options encode_input reads (lines 143, 151, 155)
EncodeOptions ==
    [ label_nc : 0..MaxLabelNc, no_instance : BOOLEAN, data_type : {16, 32} ]

\* values of the pixels of a float label map: the class ids 0..label_nc (the
\* last one past the label space) and the values halfway between them
LabelValues(nc) ==
    { RatNorm(<<n, 2>>) : n \in 0..(2 * (IF nc = 0 THEN 1 ELSE nc)) }

\* tensor.long(): conversion to integer truncates towards zero (the values
\* here are not negative)
Long(q) == q[1] \div q[2]

\* line 149: torch.FloatTensor(torch.Size(oneHot_size)).zero_(), one pixel
ZeroedOneHot(nc) == [c \in 1..nc |-> <<0, 1>>]

\* scatter_ raises RuntimeError for an index outside the scattered dimension
ScatterInRange(input, index) == index >= 0 /\ index < Len(input)

\* scatter_ with class ids taken as 1-based channel numbers
Scatter_OneBased(input, index, value) ==
    [c \in 1..Len(input) |-> IF c = index THEN value ELSE input[c]]

\* line 150: input_label.scatter_(1, index, 1.0) at one pixel: the channel
\* numbered index (0-based) is set to value, the others are kept
Scatter(input, index, value) ==
    [c \in 1..Len(input) |-> IF c = index + 1 THEN value ELSE input[c]]

\* line 152: tensor.half(); binary16 has an 11-bit significand, so every
\* multiple of 1/2 of magnitude below 1024 converts exactly (encode_input
\* converts only the entries 0.0 and 1.0 of the one-hot tensor)
Half(q) == CASE q[2] \in {1, 2} /\ Abs(q[1]) < 2048 -> q

\* lines 468-478 on a map of height 1: the slices of lines 473-474 are empty,
\* lines 471-472 mark both pixels of every disagreeing horizontal pair
RowEdges(m) ==
    [w \in EncCols |->
        IF \/ (w >= 2 /\ m[w] # m[w - 1])
           \/ (w <= EncW - 1 /\ m[w + 1] # m[w])
        THEN <<1, 1>> ELSE <<0, 1>>]

\* lines 143-152: input_label before the edge map is appended
EncodeLabel(o, lm) ==
    IF o.label_nc = 0
    THEN [w \in EncCols |-> << lm[w] >>]
    ELSE [w \in EncCols |->
             LET oneHot == Scatter(ZeroedOneHot(o.label_nc), Long(lm[w]), <<1, 1>>)
             IN  IF o.data_type = 16
                 THEN [c \in 1..Len(oneHot) |-> Half(oneHot[c])]
                 ELSE oneHot]

\* line 158: torch.cat((input_label, edge_map), dim=1)
CatEdge(x, e) == [w \in EncCols |-> Append(x[w], e[w])]

InitEncode ==
    /\ call = "encode_input"
    /\ SwapUnused
    /\ TrainUnused
    /\ BroadcastUnused
    /\ EdgesUnused
    /\ encode_opt \in EncodeOptions
    /\ encode_label_map \in [EncCols -> LabelValues(encode_opt.label_nc)]
    /\ inst_map \in [EncCols -> InstanceIds]
    /\ input_label = <<>>
    /\ encode_result = "pending"

\* lines 142-171 (real_image and feat_map are passed through)
encode_input ==
    /\ call = "encode_input"
    /\ encode_result = "pending"
    /\ IF /\ encode_opt.label_nc # 0
          /\ \E w \in EncCols :
                 ~ScatterInRange(ZeroedOneHot(encode_opt.label_nc),
                                 Long(encode_label_map[w]))
       THEN \* line 150: a class id outside 0..label_nc-1
            /\ encode_result' = "RuntimeError"
            /\ UNCHANGED input_label
       ELSE IF encode_opt.no_instance
       THEN /\ encode_result' = "returned"
            /\ input_label' = EncodeLabel(encode_opt, encode_label_map)
       ELSE IF encode_opt.label_nc = 0 /\ encode_opt.data_type = 16
       THEN \* line 158 joins a float tensor and the half-precision edge map:
            \* torch versions without type promotion in cat raise here
            \/ /\ encode_result' = "RuntimeError"
               /\ UNCHANGED input_label
            \/ /\ encode_result' = "returned"
               /\ input_label' = CatEdge(EncodeLabel(encode_opt, encode_label_map),
                                         RowEdges(inst_map))
       ELSE /\ encode_result' = "returned"
            /\ input_label' = CatEdge(EncodeLabel(encode_opt, encode_label_map),
                                      RowEdges(inst_map))
    /\ UNCHANGED <<call, encode_opt, encode_label_map, inst_map>>
    /\ UNCHANGED <<swapVars, trainVars, broadcastVars, edgeVars>>

NextEncode == encode_input

SpecEncode == InitEncode /\ [][NextEncode]_vars

----------------------------------------------------------------------------
(* The model as a whole: one method of the class is exercised per behaviour *)

Init == InitSwap \/ InitTrain \/ InitBroadcast \/ InitEdges \/ InitEncode

Next ==
    \/ swap_features
    \/ forward
    \/ update_learning_rate
    \/ set_continue_learning_rate
    \/ update_fixed_params
    \/ broadcast_features
    \/ get_edges
    \/ encode_input

Spec == Init /\ [][Next]_vars

----------------------------------------------------------------------------
(* Properties of swap_features *)

\* pixels of the first condition sample labelled swapID, in index order
SwapConditionPixels ==
    SelectSeq([p \in Pixels |-> p], LAMBDA p : condition_label[1][p] = swapID)

\* the class the equivalence table {5:1, 22:1} resolves swapID to in the
\* reference map (None when there is none)
SwapResolvedClass ==
    IF \E b \in Samples, p \in Pixels : reference_label[b][p] = swapID THEN swapID
    ELSE IF swapID \in {5, 22} THEN 1
    ELSE None

\* pixels of the first reference sample labelled with the resolved class
SwapReferencePixels ==
    SelectSeq([p \in Pixels |-> p],
              LAMBDA p : reference_label[1][p] = SwapResolvedClass)

\* the first sample of the condition map has swapID pixels and the first
\* sample of the reference map has at least as many of the resolved class
SwapCounts ==
    /\ Len(SwapConditionPixels) >= 1
    /\ Len(SwapReferencePixels) >= Len(SwapConditionPixels)

\* C1 (as stated): after swap_features on a condition map with N swapID pixels
\* and a reference map with M >= N pixels of the resolved class, the k-th
\* condition pixel holds the reference feature vector of the k-th reference
\* pixel, for every k in 1..N.
C1_PositionalAssignment ==
    (swap_result # "pending" /\ SwapCounts) =>
        /\ swap_result = "returned"
        /\ \A k \in 1..Len(SwapConditionPixels) :
               condition_feat_map[1][SwapConditionPixels[k]]
                   = reference_feat_map[1][SwapReferencePixels[k]]

\* C1 (amended): under the same precondition, every one of the N condition
\* pixels holds, in all channels, the reference feature vector of the FIRST
\* reference pixel (in index order) of the resolved class.
C1_FirstReferenceVector ==
    (swap_result # "pending" /\ SwapCounts) =>
        /\ swap_result = "returned"
        /\ \A k \in 1..Len(SwapConditionPixels) :
               condition_feat_map[1][SwapConditionPixels[k]]
                   = reference_feat_map[1][SwapReferencePixels[1]]

C1_Witness ==
    /\ swap_result = "returned"
    /\ Len(SwapConditionPixels) >= 2
    /\ Len(SwapReferencePixels) >= 2
    /\ condition_feat_map # ConditionFeat

\* C2: when swapID is not among the distinct values of the condition label
\* map, swap_features ends in an assertion error raised before equivID is
\* computed and before any feature map is written.
C2_AbsentSwapIDAsserts ==
    (/\ swap_result # "pending"
     /\ \A b \in Samples, p \in Pixels : condition_label[b][p] # swapID) =>
        /\ swap_result = "AssertionError"
        /\ equivID = None
        /\ condition_feat_map = ConditionFeat
        /\ reference_feat_map = ReferenceFeat

C2_Witness ==
    /\ swap_result = "AssertionError"
    /\ \A b \in Samples, p \in Pixels : condition_label[b][p] # swapID
    /\ \E b \in Samples, p \in Pixels : reference_label[b][p] = swapID

\* C3: equivalence resolution.  swapID present in the reference map is used
\* directly; otherwise it is resolved through {5:1, 22:1}, and a reference
\* map lacking class 5 (or 22) but containing class 1 makes the swap copy
\* class 1's reference features into the condition pixels of swapID.
C3_EquivalenceResolution ==
    (/\ swap_result # "pending"
     /\ \E b \in Samples, p \in Pixels : condition_label[b][p] = swapID) =>
        /\ (\E b \in Samples, p \in Pixels : reference_label[b][p] = swapID)
               => equivID = swapID
        /\ (/\ swapID \in {5, 22}
            /\ \A b \in Samples, p \in Pixels : reference_label[b][p] # swapID
            /\ \E b \in Samples, p \in Pixels : reference_label[b][p] = 1) =>
               /\ equivID = 1
               /\ swap_result = "returned"
               /\ \A p \in Pixels :
                      condition_label[1][p] = swapID =>
                          \E b \in Samples, q \in Pixels :
                              /\ reference_label[b][q] = 1
                              /\ condition_feat_map[1][p] = reference_feat_map[b][q]

\* C4: when neither swapID nor its table substitute is in the reference map
\* (in particular when swapID has no table entry), swap_features ends in an
\* assertion error and the condition feature map is unchanged.
C4_UnresolvableAsserts ==
    (/\ swap_result # "pending"
     /\ \A b \in Samples, p \in Pixels : reference_label[b][p] # swapID
     /\ \/ swapID \notin {5, 22}
        \/ \A b \in Samples, p \in Pixels : reference_label[b][p] # 1) =>
        /\ swap_result = "AssertionError"
        /\ condition_feat_map = ConditionFeat

C4_Witness ==
    /\ swap_result = "AssertionError"
    /\ \E p \in Pixels : condition_label[1][p] = swapID
    /\ swapID \notin {5, 22}
    /\ equivID = None
    /\ \E b \in Samples, p \in Pixels : reference_label[b][p] = 1

\* C5: a swap that returns leaves the reference feature map and both label
\* maps as they were, and changes the condition feature map only at pixels
\* of the first sample whose condition label is swapID.
C5_SwapFrame ==
    [][ swap_result' = "returned" =>
          /\ reference_feat_map' = reference_feat_map
          /\ condition_label' = condition_label
          /\ reference_label' = reference_label
          /\ \A b \in Samples, p \in Pixels :
                 (b # 1 \/ condition_label[1][p] # swapID) =>
                     condition_feat_map'[b][p] = condition_feat_map[b][p] ]_vars

C5_Witness ==
    /\ swap_result = "returned"
    /\ condition_feat_map # ConditionFeat
    /\ \E p \in Pixels : condition_label[1][p] # swapID
    /\ \E p \in Pixels : condition_label[2][p] = swapID

----------------------------------------------------------------------------
(* Properties of broadcast_features and get_edges *)

\* the class of the label value at a pixel is a key of the feature dictionary
\* or is covered by the average fallback
BroadcastResolved(b, p) ==
    \/ ClassOf(label_map[b][p]) \in DOMAIN features_dict
    \/ from_avg

\* C8: in the returned feature map any two pixels with the same composite
\* label value whose class is resolved carry the identical feature vector in
\* all channels, whether adjacent or in disjoint regions, also under the
\* random flag.
C8_BroadcastUniform ==
    broadcast_result = "returned" =>
        \A b1 \in Samples, p1 \in Pixels, b2 \in Samples, p2 \in Pixels :
            (label_map[b1][p1] = label_map[b2][p2] /\ BroadcastResolved(b1, p1)) =>
                \A k \in Channels : feat_map[b1][p1][k] = feat_map[b2][p2][k]

\* two separated pixels of the composite value 6001, the designated class
\* replaced by a random vector
C8_Witness ==
    /\ broadcast_result = "returned"
    /\ random
    /\ 6 \in DOMAIN features_dict
    /\ label_map[1][1] = 6001
    /\ label_map[1][2] = 3
    /\ label_map[2][1] = 6001
    /\ feat_map[1][1] = feat_map[2][1]
    /\ feat_map[1][1] # DictFeature(6)

\* C9: a label value whose class is not a key of the feature dictionary does
\* not make the call fail; without from_avg its pixels are zero in every
\* channel of the returned map, with from_avg they hold the class's average
\* vector.
C9_MissingClassZeroOrAverage ==
    broadcast_result = "returned" =>
        \A b \in Samples, p \in Pixels :
            ClassOf(label_map[b][p]) \notin DOMAIN features_dict =>
                IF from_avg
                THEN feat_map[b][p] = AvgFeature(ClassOf(label_map[b][p]))
                ELSE \A k \in Channels : feat_map[b][p][k] = 0

\* the instance id of some existing horizontal or vertical neighbour differs
HasDifferentNeighbour(h, w) ==
    \E h2 \in Rows, w2 \in Cols :
        /\ \/ (h2 = h /\ (w2 = w + 1 \/ w2 = w - 1))
           \/ (w2 = w /\ (h2 = h + 1 \/ h2 = h - 1))
        /\ t[h2][w2] # t[h][w]

\* C10: get_edges marks a pixel exactly when one of its existing horizontal
\* or vertical neighbours has a different instance id (so both pixels of a
\* disagreeing adjacent pair are marked and a pixel agreeing with all its
\* neighbours is not).
C10_EdgeIffNeighbourDiffers ==
    edges_result = "returned" =>
        \A h \in Rows, w \in Cols :
            /\ edge[h][w] \in {0, 1}
            /\ edge[h][w] = 1 <=> HasDifferentNeighbour(h, w)

\* an inner pixel agreeing with its four neighbours is unmarked while the
\* disagreeing pair (1,1), (1,2) is marked on both sides
C10_Witness ==
    /\ edges_result = "returned"
    /\ ~HasDifferentNeighbour(2, 2)
    /\ edge[2][2] = 0
    /\ t[1][1] # t[1][2]
    /\ edge[1][1] = 1
    /\ edge[1][2] = 1

----------------------------------------------------------------------------
(* Properties of encode_input *)

\* a <= b for rationals with positive denominators
RatLeq(a, b) == a[1] * b[2] <= b[1] * a[2]

\* the label channels of a pixel whose entry is 1
LabelChannelsSet(w) ==
    { c \in 1..encode_opt.label_nc : input_label[w][c] = <<1, 1>> }

\* argmax over the label channels of a pixel: the channels holding the maximum
ArgMaxLabelChannels(w) ==
    { c \in 1..encode_opt.label_nc :
          \A d \in 1..encode_opt.label_nc :
              RatLeq(input_label[w][d], input_label[w][c]) }

\* every pixel of the label map is a class id in 0..label_nc-1
LabelsInRange ==
    \A w \in EncCols :
        /\ encode_label_map[w][2] = 1
        /\ encode_label_map[w][1] \in 0..(encode_opt.label_nc - 1)

\* C11: with label_nc > 0 and a label map with values in 0..label_nc-1,
\* encode_input builds a tensor that has exactly one label channel set to 1
\* at every pixel, and the argmax over the label channels is the pixel's
\* original label.
C11_OneHotRoundTrip ==
    (/\ encode_result # "pending"
     /\ encode_opt.label_nc > 0
     /\ LabelsInRange) =>
        /\ encode_result = "returned"
        /\ \A w \in EncCols :
               /\ Cardinality(LabelChannelsSet(w)) = 1
               /\ \A c \in ArgMaxLabelChannels(w) :
                      <<c - 1, 1>> = encode_label_map[w]
               /\ ArgMaxLabelChannels(w) # {}

\* two pixels of different classes, the edge channel appended and set at
\* both, the tensor converted to half precision
C11_Witness ==
    /\ encode_result = "returned"
    /\ encode_opt.label_nc >= 2
    /\ encode_opt.data_type = 16
    /\ ~encode_opt.no_instance
    /\ LabelsInRange
    /\ encode_label_map[1] = <<1, 1>>
    /\ encode_label_map[2] = <<0, 1>>
    /\ input_label[1] = << <<0, 1>>, <<1, 1>> >> \o [c \in 1..(encode_opt.label_nc - 2) |-> <<0, 1>>] \o << <<1, 1>> >>
    /\ inst_map[1] # inst_map[2]

----------------------------------------------------------------------------
(* Properties of the loss aggregator and the learning-rate schedule *)

\* the names of the terms forward() returned, in order
ReturnedLossNames ==
    [i \in 1..Len(forward_result[1]) |-> forward_result[1][i].name]

\* C6 (as stated): whenever the feature-matching, perceptual (VGG) and
\* reconstruction flags are all disabled, forward returns exactly three loss
\* terms: adversarial generator, real discriminator, fake discriminator.
C6_ThreeLossesFeatVggReconOff ==
    (/\ forward_result # <<>>
     /\ opt.no_ganFeat_loss /\ opt.no_vgg_loss /\ opt.no_recon_loss) =>
        /\ Len(forward_result[1]) = 3
        /\ ReturnedLossNames = <<"G_GAN_Encode", "D_real", "D_fake">>

\* C6 (amended): whenever the feature-matching, perceptual (VGG), style and
\* reconstruction flags are all disabled, forward returns exactly three loss
\* terms: adversarial generator, real discriminator, fake discriminator.
C6_ThreeLossesAllAuxOff ==
    (/\ forward_result # <<>>
     /\ opt.no_ganFeat_loss /\ opt.no_vgg_loss /\ opt.no_recon_loss
     /\ opt.no_style_loss) =>
        /\ Len(forward_result[1]) = 3
        /\ ReturnedLossNames = <<"G_GAN_Encode", "D_real", "D_fake">>

C6_Witness ==
    /\ call = "forward"
    /\ forward_result # <<>>
    /\ opt.no_ganFeat_loss /\ opt.no_vgg_loss /\ opt.no_recon_loss
    /\ opt.no_style_loss
    /\ Len(forward_result[1]) = 3

\* a step of update_learning_rate taken at a positive tracked rate R, with a
\* positive decay-epoch count D
IsDecayStep ==
    /\ call' = "update_learning_rate"
    /\ lr_calls' = lr_calls + 1
    /\ old_lr[1] > 0
    /\ opt.niter_decay > 0

\* every parameter group of both optimizers runs at the tracked rate after the step
GroupsFollowTrackedRate ==
    /\ \A g \in 1..Len(optimizer_G') : optimizer_G'[g].lr = old_lr'
    /\ \A g \in 1..Len(optimizer_D') : optimizer_D'[g].lr = old_lr'

\* C7 (as stated): with tracked rate R and decay-epoch count D, one
\* update_learning_rate() sets the tracked rate and every parameter group's lr
\* to exactly R - R/D, also when R came from set_continue_learning_rate or an
\* earlier update_learning_rate.
C7_DecayByTrackedRate ==
    [][ IsDecayStep =>
          /\ old_lr'[1] * old_lr[2] * opt.niter_decay
                 = old_lr[1] * (opt.niter_decay - 1) * old_lr'[2]
          /\ GroupsFollowTrackedRate ]_vars

\* C7 (amended): with tracked rate R, configured initial rate L = opt.lr and
\* decay-epoch count D, one update_learning_rate() sets the tracked rate and
\* every parameter group's lr to exactly R - L/D.
C7_DecayByInitialRate ==
    [][ IsDecayStep =>
          /\ old_lr'[1] * old_lr[2] * opt.lr[2] * opt.niter_decay
                 = (old_lr[1] * opt.lr[2] * opt.niter_decay - opt.lr[1] * old_lr[2])
                       * old_lr'[2]
          /\ GroupsFollowTrackedRate ]_vars

\* two decay steps in a row from the initial rate: the second starts from
\* R = L - L/D, which differs from L
C7_Witness ==
    /\ call = "update_learning_rate"
    /\ lr_calls = 2
    /\ opt.niter_decay >= 3
    /\ old_lr[1] * opt.lr[2] * opt.niter_decay
           = opt.lr[1] * (opt.niter_decay - 2) * old_lr[2]
    /\ optimizer_G[1].lr = old_lr
    /\ optimizer_D[1].lr = old_lr

\* C12: after initialization and after any sequence of update_learning_rate,
\* set_continue_learning_rate and update_fixed_params calls, every parameter
\* group of the generator optimizer and of the discriminator optimizer has lr
\* equal to the tracked learning rate old_lr.
C12_GroupsAtTrackedRate ==
    call \in TrainingCalls =>
        /\ \A g \in 1..Len(optimizer_G) : optimizer_G[g].lr = old_lr
        /\ \A g \in 1..Len(optimizer_D) : optimizer_D[g].lr = old_lr

\* C13: for every combination of the feature-matching, perceptual, style and
\* reconstruction flags, every term of the loss list forward returns has been
\* unsqueezed exactly once: it is a tensor of one dimension holding a single
\* element, so all returned terms have the same rank.
C13_TermsUnsqueezedOnce ==
    forward_result # <<>> =>
        \A i \in 1..Len(forward_result[1]) :
            /\ forward_result[1][i].kind = "tensor"
            /\ forward_result[1][i].dims = 1

====
